---- MODULE Spec2Model ----
(***************************************************************************)
(* The search session (useSearch) and the upload pipeline                  *)
(* (useFirebaseUpload, MemoryUpload.handleSubmit) of the alumni memories   *)
(* application, as state machines.                                         *)
(*                                                                         *)
(* A string is a sequence of one-character strings.  A React state cell is *)
(* a variable; every handler or promise continuation is one action, with   *)
(* the state updates it batches.  A closure created by a render is         *)
(* modelled by the values it captured.                                     *)
(***************************************************************************)
EXTENDS Integers, Sequences, FiniteSets, TLC

(***************************************************************************)
(* Bounds of the model.                                                    *)
(***************************************************************************)
MaxInflight == 2
MaxTimers == 2
MaxResults == 3

(***************************************************************************)
(* Program constants.                                                      *)
(***************************************************************************)
DefaultLimit == 20
RecentCap == 10
TitleWeight == 10
TitleStartBonus == 5
DescriptionWeight == 5
ContentWeight == 3
TagWeight == 7
LocationWeight == 4
PersonWeight == 4
RecentDays == 30
RecencyDivisor == 15
RecencyMax == 2

(***************************************************************************)
(* Strings.                                                                *)
(***************************************************************************)
Undefined == <<"undefined">>

Lower(c) ==
    CASE c = "A" -> "a"
      [] c = "B" -> "b"
      [] OTHER -> c

ToLowerCase(s) == [i \in 1..Len(s) |-> Lower(s[i])]

RECURSIVE TrimStart(_)
TrimStart(s) ==
    IF s = <<>> THEN s
    ELSE IF s[1] = " " THEN TrimStart(Tail(s)) ELSE s

RECURSIVE TrimEnd(_)
TrimEnd(s) ==
    IF s = <<>> THEN s
    ELSE IF s[Len(s)] = " " THEN TrimEnd(SubSeq(s, 1, Len(s) - 1)) ELSE s

Trim(s) == TrimEnd(TrimStart(s))

Includes(s, q) ==
    \E i \in 0..(Len(s) - Len(q)) : SubSeq(s, i + 1, i + Len(q)) = q

StartsWith(s, q) ==
    /\ Len(q) <= Len(s)
    /\ SubSeq(s, 1, Len(q)) = q

(* a?.toLowerCase().includes(q): false when the field is undefined *)
FieldIncludes(field, q) ==
    /\ field # Undefined
    /\ Includes(ToLowerCase(field), q)

Max(a, b) == IF a >= b THEN a ELSE b

(***************************************************************************)
(* The document collection 'memories'.  createdAt and updatedAt are day    *)
(* numbers; Now is the day of the run.  Documents written by MemoryUpload  *)
(* carry text and urls and no title (document 1).                          *)
(***************************************************************************)
Now == 200

T1 == <<"t", "1">>
T2 == <<"t", "2">>

Collection ==
    << [ title |-> Undefined, description |-> Undefined, content |-> Undefined,
         text |-> <<"b">>, tags |-> {T1}, authorId |-> "u1",
         isPublic |-> FALSE, location |-> Undefined, persons |-> {},
         imageUrls |-> 1, createdAt |-> 200, updatedAt |-> 200 ],
       [ title |-> <<"A", "b">>, description |-> <<>>, content |-> <<>>,
         text |-> Undefined, tags |-> {T2}, authorId |-> "u1",
         isPublic |-> TRUE, location |-> Undefined, persons |-> {},
         imageUrls |-> 0, createdAt |-> 190, updatedAt |-> 195 ],
       [ title |-> <<"b">>, description |-> <<>>, content |-> <<"a">>,
         text |-> Undefined, tags |-> {T1}, authorId |-> "u2",
         isPublic |-> TRUE, location |-> Undefined, persons |-> {},
         imageUrls |-> 1, createdAt |-> 160, updatedAt |-> 160 ],
       [ title |-> <<"b", ".">>, description |-> <<"a">>, content |-> <<>>,
         text |-> Undefined, tags |-> {T2}, authorId |-> "u2",
         isPublic |-> TRUE, location |-> <<"b">>, persons |-> {<<"B">>},
         imageUrls |-> 0, createdAt |-> 100, updatedAt |-> 100 ],
       [ title |-> <<"a", "B", "a">>, description |-> <<>>, content |-> <<>>,
         text |-> Undefined, tags |-> {}, authorId |-> "u1",
         isPublic |-> TRUE, location |-> Undefined, persons |-> {},
         imageUrls |-> 0, createdAt |-> 50, updatedAt |-> 60 ] >>

DocIds == 1..Len(Collection)

(* null: the cursor before any page, and after an empty page *)
NoDoc == 0

(***************************************************************************)
(* SearchFilters.  searchQuery <<>> and author "" stand for an absent (or  *)
(* empty) field, limit 0 for an absent (or zero) limit, isPublic           *)
(* "undefined" for an absent flag, sortBy and sortOrder "" for absent.     *)
(***************************************************************************)
NoRange == <<>>

Filters(q, tags, isPublic, lim) ==
    [ searchQuery |-> q, tags |-> tags, author |-> "", dateRange |-> NoRange,
      isPublic |-> isPublic, hasImages |-> FALSE, sortBy |-> "",
      sortOrder |-> "", limit |-> lim ]

QA == <<"a">>
QB == <<"b">>
QBlank == <<" ">>

FilterChoices ==
    { Filters(QA, {}, "undefined", 2),
      Filters(QB, {}, "undefined", 0),
      Filters(<<>>, {T1}, "undefined", 1),
      Filters(QBlank, {}, "false", 0) }

(* the filters loadMore is called with: those whose pages are cut by a limit *)
LoadMoreChoices == { f \in FilterChoices : f.limit # 0 }

(***************************************************************************)
(* buildQuery: the constraints, in the order they are pushed.              *)
(***************************************************************************)
Truthy(lastDocValue) == lastDocValue # NoDoc

LimitCount(filters) == IF filters.limit # 0 THEN filters.limit ELSE DefaultLimit

NoTextConstraint(filters) == <<>>

(* text search: public documents only *)
TextConstraint(filters) ==
    IF filters.searchQuery # <<>>
       THEN << [kind |-> "where", field |-> "isPublic", op |-> "==", flag |-> TRUE] >>
       ELSE <<>>

FirstTagConstraint(filters) ==
    IF filters.tags # {}
       THEN << [kind |-> "where", field |-> "tags", op |-> "array-contains-any",
                values |-> {CHOOSE t \in filters.tags : TRUE}] >>
       ELSE <<>>

(* tag filtering *)
TagsConstraint(filters) ==
    IF filters.tags # {}
       THEN << [kind |-> "where", field |-> "tags", op |-> "array-contains-any",
                values |-> filters.tags] >>
       ELSE <<>>

NoVisibilityConstraint(filters) == <<>>

(* public/private filtering *)
VisibilityConstraint(filters) ==
    IF filters.isPublic # "undefined"
       THEN << [kind |-> "where", field |-> "isPublic", op |-> "==",
                flag |-> (filters.isPublic = "true")] >>
       ELSE <<>>

BuildQuery(filters, isLoadMore, lastDocValue) ==
    TextConstraint(filters)
    \o TagsConstraint(filters)
    \o (IF filters.author # ""
        THEN << [kind |-> "where", field |-> "authorId", op |-> "==",
                 name |-> filters.author] >>
        ELSE <<>>)
    \o (IF filters.dateRange # NoRange
        THEN << [kind |-> "where", field |-> "createdAt", op |-> ">=",
                 day |-> filters.dateRange[1]],
                [kind |-> "where", field |-> "createdAt", op |-> "<=",
                 day |-> filters.dateRange[2]] >>
        ELSE <<>>)
    \o VisibilityConstraint(filters)
    \o (IF filters.hasImages
        THEN << [kind |-> "where", field |-> "imageUrls", op |-> "!=[]"] >>
        ELSE <<>>)
    \o << [kind |-> "orderBy",
           field |-> (IF filters.sortBy # "" THEN filters.sortBy ELSE "createdAt"),
           direction |-> (IF filters.sortOrder # "" THEN filters.sortOrder ELSE "desc")] >>
    \o (IF isLoadMore /\ Truthy(lastDocValue)
        THEN << [kind |-> "startAfter", doc |-> lastDocValue] >>
        ELSE <<>>)
    \o << [kind |-> "limit", count |-> LimitCount(filters)] >>

(***************************************************************************)
(* The store (getDocs): the documents that satisfy every where constraint, *)
(* in the order of the orderBy constraint, after the cursor, cut to the    *)
(* limit.                                                                  *)
(***************************************************************************)
Satisfies(d, c) ==
    LET doc == Collection[d] IN
    CASE c.op = "==" /\ c.field = "isPublic" -> doc.isPublic = c.flag
      [] c.op = "==" /\ c.field = "authorId" -> doc.authorId = c.name
      [] c.op = "array-contains-any" -> doc.tags \cap c.values # {}
      [] c.op = ">=" -> doc.createdAt >= c.day
      [] c.op = "<=" -> doc.createdAt <= c.day
      [] c.op = "!=[]" -> doc.imageUrls > 0

OfKind(constraints, kind) == SelectSeq(constraints, LAMBDA c : c.kind = kind)

OrderKey(d, order) ==
    IF order.field = "updatedAt" THEN Collection[d].updatedAt
    ELSE Collection[d].createdAt

(* d comes before e in the order of the query; ties go by document id *)
Before(d, e, order) ==
    LET kd == OrderKey(d, order)
        ke == OrderKey(e, order)
    IN  IF order.direction = "desc"
           THEN kd > ke \/ (kd = ke /\ d > e)
           ELSE kd < ke \/ (kd = ke /\ d < e)

RECURSIVE Ordered(_, _)
Ordered(S, order) ==
    IF S = {} THEN <<>>
    ELSE LET first == CHOOSE d \in S : \A e \in S \ {d} : Before(d, e, order)
         IN  <<first>> \o Ordered(S \ {first}, order)

Take(s, n) == SubSeq(s, 1, IF Len(s) < n THEN Len(s) ELSE n)

GetDocs(constraints) ==
    LET wheres == OfKind(constraints, "where")
        order == OfKind(constraints, "orderBy")[1]
        cursor == OfKind(constraints, "startAfter")
        count == OfKind(constraints, "limit")[1].count
        matching == { d \in DocIds :
                        \A i \in 1..Len(wheres) : Satisfies(d, wheres[i]) }
        after == IF cursor = <<>> THEN matching
                 ELSE { d \in matching : Before(cursor[1].doc, d, order) }
    IN  Take(Ordered(after, order), count)

(***************************************************************************)
(* calculateScore, in units of 1/RecencyDivisor so that the recency bonus  *)
(* max(0, 2 - days/15) is the integer max(0, 30 - days).                   *)
(***************************************************************************)
RecencyBonus(days) ==
    IF days < RecentDays THEN Max(0, RecencyMax * RecencyDivisor - days) ELSE 0

TitleContainsOnly(item, searchQuery) ==
    IF FieldIncludes(item.title, searchQuery) THEN TitleWeight ELSE 0

TitlePoints(item, searchQuery) ==
    IF FieldIncludes(item.title, searchQuery)
       THEN TitleWeight
            + (IF StartsWith(ToLowerCase(item.title), searchQuery)
                  THEN TitleStartBonus ELSE 0)
       ELSE 0

CalculateScore(item, searchQueryParam) ==
    IF Trim(searchQueryParam) = <<>> THEN 0
    ELSE LET searchQuery == ToLowerCase(searchQueryParam)
             points ==
                 TitlePoints(item, searchQuery)
                 + (IF FieldIncludes(item.description, searchQuery)
                       THEN DescriptionWeight ELSE 0)
                 + (IF FieldIncludes(item.content, searchQuery)
                       THEN ContentWeight ELSE 0)
                 + (IF \E tag \in item.tags : Includes(ToLowerCase(tag), searchQuery)
                       THEN TagWeight ELSE 0)
                 + (IF FieldIncludes(item.location, searchQuery)
                       THEN LocationWeight ELSE 0)
                 + (IF \E person \in item.persons :
                          Includes(ToLowerCase(person), searchQuery)
                       THEN PersonWeight ELSE 0)
         IN  points * RecencyDivisor + RecencyBonus(Now - item.createdAt)

(***************************************************************************)
(* highlightText.  The query is escaped and compiled to a pattern: a       *)
(* backslash makes the next character a literal, an unescaped dot matches  *)
(* any character.  Flags g and i: every non-overlapping match, from the    *)
(* left, compared without case.                                            *)
(***************************************************************************)
MarkOpen == "<mark class=\"bg-yellow-200 px-1 rounded\">"
MarkClose == "</mark>"

RegexSpecial == {".", "*", "+", "?", "^", "$", "{", "}", "(", ")", "|", "[", "]", "\\"}

NoEscape(q) == q

RECURSIVE EscapeRegex(_)
EscapeRegex(q) ==
    IF q = <<>> THEN <<>>
    ELSE (IF q[1] \in RegexSpecial THEN <<"\\", q[1]>> ELSE <<q[1]>>)
         \o EscapeRegex(Tail(q))

RECURSIVE Compile(_)
Compile(pattern) ==
    IF pattern = <<>> THEN <<>>
    ELSE IF pattern[1] = "\\" /\ Len(pattern) >= 2
         THEN <<[any |-> FALSE, char |-> pattern[2]]>> \o Compile(SubSeq(pattern, 3, Len(pattern)))
    ELSE IF pattern[1] = "."
         THEN <<[any |-> TRUE, char |-> "."]>> \o Compile(Tail(pattern))
    ELSE <<[any |-> FALSE, char |-> pattern[1]]>> \o Compile(Tail(pattern))

MatchesAt(text, i, atoms) ==
    /\ i + Len(atoms) - 1 <= Len(text)
    /\ \A k \in 1..Len(atoms) :
          atoms[k].any \/ Lower(text[i + k - 1]) = Lower(atoms[k].char)

RECURSIVE ReplaceFrom(_, _, _)
ReplaceFrom(text, i, atoms) ==
    IF i > Len(text) THEN <<>>
    ELSE IF MatchesAt(text, i, atoms)
         THEN <<MarkOpen>> \o SubSeq(text, i, i + Len(atoms) - 1) \o <<MarkClose>>
              \o ReplaceFrom(text, i + Len(atoms), atoms)
    ELSE <<text[i]>> \o ReplaceFrom(text, i + 1, atoms)

HighlightText(text, searchQuery) ==
    IF Trim(searchQuery) = <<>> THEN text
    ELSE ReplaceFrom(text, 1, Compile(EscapeRegex(searchQuery)))

(***************************************************************************)
(* One result of a page (the map over snapshot.docs), and the stable sort  *)
(* by descending score.  NoScore is an absent score.                       *)
(***************************************************************************)
NoScore == -1

OrEmpty(field) == IF field = Undefined THEN <<>> ELSE field

ResultContent(data) ==
    IF data.content # Undefined /\ data.content # <<>> THEN data.content
    ELSE OrEmpty(data.text)

ToResult(d, filters) ==
    LET data == Collection[d] IN
    IF filters.searchQuery # <<>>
       THEN [ id |-> d,
              score |-> CalculateScore(data, filters.searchQuery),
              highlightedTitle |-> HighlightText(OrEmpty(data.title), filters.searchQuery),
              highlightedContent |-> HighlightText(ResultContent(data), filters.searchQuery) ]
       ELSE [ id |-> d, score |-> NoScore,
              highlightedTitle |-> Undefined, highlightedContent |-> Undefined ]

ScoreOrZero(r) == IF r.score = NoScore THEN 0 ELSE r.score

(* r goes after every entry whose score is not lower: the sort is stable *)
RECURSIVE InsertByScore(_, _)
InsertByScore(sorted, r) ==
    IF sorted = <<>> THEN <<r>>
    ELSE IF ScoreOrZero(sorted[1]) >= ScoreOrZero(r)
         THEN <<sorted[1]>> \o InsertByScore(Tail(sorted), r)
    ELSE <<r>> \o sorted

Unsorted(rs) == rs

RECURSIVE SortByScore(_)
SortByScore(rs) ==
    IF rs = <<>> THEN <<>>
    ELSE InsertByScore(SortByScore(SubSeq(rs, 1, Len(rs) - 1)), rs[Len(rs)])

NewResults(docs, filters) ==
    LET mapped == [i \in 1..Len(docs) |-> ToResult(docs[i], filters)]
    IN  IF filters.searchQuery # <<>> THEN SortByScore(mapped) ELSE mapped

(***************************************************************************)
(* JSON.stringify and JSON.parse of a list of strings.                     *)
(***************************************************************************)
NoJSONEscape(char) == <<char>>

JSONEscape(char) == IF char \in {"\"", "\\"} THEN <<"\\", char>> ELSE <<char>>

RECURSIVE JSONString(_)
JSONString(s) ==
    IF s = <<>> THEN <<>>
    ELSE JSONEscape(s[1]) \o JSONString(Tail(s))

RECURSIVE JSONItems(_)
JSONItems(list) ==
    IF list = <<>> THEN <<>>
    ELSE <<"\"">> \o JSONString(list[1]) \o <<"\"">>
         \o (IF Len(list) > 1 THEN <<",">> ELSE <<>>)
         \o JSONItems(Tail(list))

JSONStringify(list) == <<"[">> \o JSONItems(list) \o <<"]">>

RECURSIVE ParseFrom(_, _, _, _, _)
ParseFrom(text, i, inString, current, parsed) ==
    IF i > Len(text) THEN parsed
    ELSE IF inString
         THEN IF text[i] = "\\"
                 THEN ParseFrom(text, i + 2, TRUE, Append(current, text[i + 1]), parsed)
              ELSE IF text[i] = "\""
                 THEN ParseFrom(text, i + 1, FALSE, <<>>, Append(parsed, current))
              ELSE ParseFrom(text, i + 1, TRUE, Append(current, text[i]), parsed)
    ELSE IF text[i] = "\""
         THEN ParseFrom(text, i + 1, TRUE, <<>>, parsed)
    ELSE ParseFrom(text, i + 1, FALSE, current, parsed)

JSONParse(text) == ParseFrom(text, 1, FALSE, <<>>, <<>>)

(* localStorage.getItem of a key that is not there *)
Absent == <<"null">>

(***************************************************************************)
(* The search session: the state of useSearch.                             *)
(*                                                                         *)
(* inflight: the search calls awaiting getDocs, in the order of the calls. *)
(*   Each holds what its closure captured: the filters, the lastDoc its    *)
(*   buildQuery read (kept only in a call that reads it) and the           *)
(*   recentSearches its saveRecentSearch reads (kept likewise).  History:  *)
(*   age is "newest" in the first-page call made last, "older" in those    *)
(*   before it, "outdated" once a newer one has succeeded, "page" in a     *)
(*   loadMore call; stale marks a call made by a timeout scheduled before  *)
(*   a later debouncedSearch call.                                         *)
(* timer: the pending timeout of the current debouncedSearch closure (a    *)
(*   sequence of length 0 or 1); orphans: pending timeouts of closures of  *)
(*   earlier renders, whose timeoutId no later call can clear.             *)
(* lastEvent: a record of the last step (history only).                    *)
(***************************************************************************)
VARIABLES results, isSearching, hasMore, lastDoc, recentSearches, localStorage,
          inflight, timer, orphans, lastEvent

searchVars == <<results, isSearching, hasMore, lastDoc, recentSearches,
                localStorage, inflight, timer, orphans, lastEvent>>

StoredHistory ==
    << <<"1">>, <<"2">>, <<"3">>, <<"4">>, <<"5", "\\">>, <<"6">>, <<"7">>, <<"8">>,
       <<"9">>, QA >>

(* the mount effect: recentSearches is what localStorage holds *)
LoadRecentSearches(saved) == IF saved # Absent THEN JSONParse(saved) ELSE <<>>

InitSearch ==
    /\ localStorage = JSONStringify(StoredHistory)
    /\ recentSearches = LoadRecentSearches(localStorage)
    /\ results = <<>>
    /\ isSearching = FALSE
    /\ hasMore = FALSE
    /\ lastDoc = NoDoc
    /\ inflight = <<>>
    /\ timer = <<>>
    /\ orphans = <<>>
    /\ lastEvent = [op |-> "mount"]

(***************************************************************************)
(* saveRecentSearch, on the recentSearches its closure captured.           *)
(***************************************************************************)
SavedListUnfiltered(searchQuery, captured) ==
    Take(<<searchQuery>> \o captured, RecentCap)

SavedList(searchQuery, captured) ==
    Take(<<searchQuery>> \o SelectSeq(captured, LAMBDA s : s # searchQuery), RecentCap)

SavesRecent(request) ==
    /\ ~request.isLoadMore
    /\ request.filters.searchQuery # <<>>
    /\ Trim(request.filters.searchQuery) # <<>>

(***************************************************************************)
(* The state a successful page leaves, and the state a failure leaves.     *)
(***************************************************************************)
ResultsReplaced(prev, newResults, isLoadMore) == newResults

ResultsAfter(prev, newResults, isLoadMore) ==
    IF isLoadMore THEN prev \o newResults ELSE newResults

HasMoreWhenAny(docs, filters) == docs # <<>>

HasMoreAfter(docs, filters) ==
    Len(docs) = (IF filters.limit # 0 THEN filters.limit ELSE DefaultLimit)

LastDocAfter(docs) == IF docs = <<>> THEN NoDoc ELSE docs[Len(docs)]

ResultsClearedOnError(prev, isLoadMore) == <<>>

ResultsOnError(prev, isLoadMore) == IF isLoadMore THEN prev ELSE <<>>

(* the promise search() returns: the catch block swallows the error *)
PromiseOnError(isLoadMore) == "resolved"

(***************************************************************************)
(* useMemo(..., [search]): a render that changes lastDoc or recentSearches *)
(* makes a new search, so a new debouncedSearch with a timeoutId of its    *)
(* own; the timeout of the closure before stays pending, out of reach.     *)
(***************************************************************************)
Renew(changed, pending, old) ==
    IF changed THEN [timer |-> <<>>, orphans |-> old \o pending]
    ELSE [timer |-> pending, orphans |-> old]

Remove(s, i) == SubSeq(s, 1, i - 1) \o SubSeq(s, i + 1, Len(s))

(* history: a first-page call makes the first-page call before it older, *)
(* and its success makes the older calls still in flight outdated         *)
Older(requests) ==
    [i \in 1..Len(requests) |->
        IF requests[i].age = "newest" THEN [requests[i] EXCEPT !.age = "older"]
        ELSE requests[i]]

Outdated(requests) ==
    [i \in 1..Len(requests) |->
        IF requests[i].age = "older" THEN [requests[i] EXCEPT !.age = "outdated"]
        ELSE requests[i]]

(* the query the call built before its await, from what its closure held *)
QueryOf(request) == BuildQuery(request.filters, request.isLoadMore, request.lastDoc)

Request(filters, isLoadMore, capturedLastDoc, capturedRecent, stale) ==
    [ filters |-> filters, isLoadMore |-> isLoadMore,
      age |-> IF isLoadMore THEN "page" ELSE "newest",
      lastDoc |-> IF isLoadMore THEN capturedLastDoc ELSE NoDoc,
      recent |-> IF ~isLoadMore /\ Trim(filters.searchQuery) # <<>>
                    THEN capturedRecent ELSE <<>>,
      stale |-> stale ]

(* search(filters): the part before the await *)
Search(filters) ==
    /\ Len(inflight) < MaxInflight
    /\ isSearching' = TRUE
    /\ results' = <<>>
    /\ lastDoc' = NoDoc
    /\ inflight' = Append(Older(inflight),
                          Request(filters, FALSE, lastDoc, recentSearches, FALSE))
    /\ LET next == Renew(lastDoc # NoDoc, timer, orphans)
       IN  timer' = next.timer /\ orphans' = next.orphans
    /\ lastEvent' = [op |-> "search"]
    /\ UNCHANGED <<hasMore, recentSearches, localStorage>>

(* loadMore(filters) = search(filters, true): the part before the await *)
LoadMore(filters) ==
    /\ Len(inflight) < MaxInflight
    /\ Len(results) < MaxResults
    /\ inflight' = Append(inflight,
                          Request(filters, TRUE, lastDoc, recentSearches, FALSE))
    /\ lastEvent' = [op |-> "loadMore"]
    /\ UNCHANGED <<results, isSearching, hasMore, lastDoc, recentSearches,
                   localStorage, timer, orphans>>

(***************************************************************************)
(* debouncedSearch(filters, delay): clearTimeout of this closure's         *)
(* timeoutId, then setTimeout.  Both callers (QuickSearch,                 *)
(* AdvancedSearch) pass a query that is not blank.  The field superseded   *)
(* of a pending timeout records that debouncedSearch was called again      *)
(* after it was scheduled (history only).                                  *)
(***************************************************************************)
DebounceChoices == { f \in FilterChoices : Trim(f.searchQuery) # <<>> }

ClearTimeout(pending) == <<>>

Supersede(pendings) == [i \in 1..Len(pendings) |-> [pendings[i] EXCEPT !.superseded = TRUE]]

DebouncedSearch(filters) ==
    /\ Len(orphans) + 1 <= MaxTimers
    /\ timer' = ClearTimeout(timer)
                \o << [ filters |-> filters, recent |-> recentSearches,
                        superseded |-> FALSE ] >>
    /\ orphans' = Supersede(orphans)
    /\ lastEvent' = [op |-> "debounce"]
    /\ UNCHANGED <<results, isSearching, hasMore, lastDoc, recentSearches,
                   localStorage, inflight>>

(* a timeout fires: search(filters) of the closure that scheduled it *)
Fire(t, pending, old) ==
    /\ Len(inflight) < MaxInflight
    /\ isSearching' = TRUE
    /\ results' = <<>>
    /\ lastDoc' = NoDoc
    /\ inflight' = Append(Older(inflight),
                          Request(t.filters, FALSE, NoDoc, t.recent, t.superseded))
    /\ LET next == Renew(lastDoc # NoDoc, pending, old)
       IN  timer' = next.timer /\ orphans' = next.orphans
    /\ lastEvent' = [op |-> "fire"]
    /\ UNCHANGED <<hasMore, recentSearches, localStorage>>

FireTimer ==
    /\ timer # <<>>
    /\ Fire(timer[1], <<>>, orphans)

FireOrphan(i) ==
    /\ i \in 1..Len(orphans)
    /\ Fire(orphans[i], timer, Remove(orphans, i))

(***************************************************************************)
(* getDocs resolves: the rest of the try block, and the finally block.     *)
(***************************************************************************)
Succeed(i) ==
    /\ i \in 1..Len(inflight)
    /\ LET request == inflight[i]
           docs == GetDocs(QueryOf(request))
           newResults == NewResults(docs, request.filters)
           updated == SavedList(request.filters.searchQuery, request.recent)
           next == Renew(SavesRecent(request) \/ lastDoc # NoDoc \/ docs # <<>>,
                         timer, orphans)
       IN  /\ results' = ResultsAfter(results, newResults, request.isLoadMore)
           /\ IF SavesRecent(request)
                 THEN /\ recentSearches' = updated
                      /\ localStorage' = JSONStringify(updated)
                 ELSE UNCHANGED <<recentSearches, localStorage>>
           /\ hasMore' = HasMoreAfter(docs, request.filters)
           /\ lastDoc' = LastDocAfter(docs)
           /\ isSearching' = IF request.isLoadMore THEN isSearching ELSE FALSE
           /\ timer' = next.timer
           /\ orphans' = next.orphans
           /\ lastEvent' = [op |-> "ok", filters |-> request.filters,
                            isLoadMore |-> request.isLoadMore,
                            lastDoc |-> request.lastDoc,
                            age |-> request.age, promise |-> "resolved"]
    /\ inflight' = IF inflight[i].age = "newest" THEN Outdated(Remove(inflight, i))
                   ELSE Remove(inflight, i)

(***************************************************************************)
(* getDocs rejects: the catch block, and the finally block.                *)
(***************************************************************************)
Fail(i) ==
    /\ i \in 1..Len(inflight)
    /\ LET request == inflight[i]
       IN  /\ results' = ResultsOnError(results, request.isLoadMore)
           /\ isSearching' = IF request.isLoadMore THEN isSearching ELSE FALSE
           /\ lastEvent' = [op |-> "fail", filters |-> request.filters,
                            isLoadMore |-> request.isLoadMore,
                            lastDoc |-> request.lastDoc,
                            age |-> request.age,
                            promise |-> PromiseOnError(request.isLoadMore)]
    /\ inflight' = Remove(inflight, i)
    /\ UNCHANGED <<hasMore, lastDoc, recentSearches, localStorage, timer, orphans>>

(***************************************************************************)
(* clearRecentSearches.  setRecentSearches([]) is a new array, so the      *)
(* render makes a new search closure.                                      *)
(***************************************************************************)
ClearedList == <<>>

StorageKept(stored) == stored

ClearedStorage(stored) == Absent

ClearRecentSearches ==
    /\ recentSearches' = ClearedList
    /\ localStorage' = ClearedStorage(localStorage)
    /\ LET next == Renew(TRUE, timer, orphans)
       IN  timer' = next.timer /\ orphans' = next.orphans
    /\ lastEvent' = [op |-> "clear", hadEntries |-> recentSearches # <<>>]
    /\ UNCHANGED <<results, isSearching, hasMore, lastDoc, inflight>>

(***************************************************************************)
(* The upload pipeline: MemoryUpload.handleSubmit over useFirebaseUpload.  *)
(*                                                                         *)
(* selectedFiles: the files the dropzone handed over (image/* and video/*  *)
(*   up to 50MB pass the dropzone).                                        *)
(* submit: where handleSubmit is; submitted: the files it was called with  *)
(*   (history only); toast: the last toast shown.                          *)
(* batch: the locals of the uploadFiles call in flight: files, results     *)
(*   (written by index), progressMap (in insertion order) and the state of *)
(*   each upload task; NoBatch when no call is in flight.                  *)
(* errorCalls, completeCalls: the arguments of the calls of onError and of  *)
(*   onComplete made by the last uploadFiles call.                         *)
(* uploadEvent: the handler or continuation that ran last (history only).  *)
(***************************************************************************)
VARIABLES selectedFiles, submit, submitted, toast, isUploading, uploadProgress,
          uploadResults, overallProgress, batch, errorCalls, completeCalls,
          uploadEvent

uploadVars == <<selectedFiles, submit, submitted, toast, isUploading,
                uploadProgress, uploadResults, overallProgress, batch,
                errorCalls, completeCalls, uploadEvent>>

(***************************************************************************)
(* A call of one of the functions of useSearch on its own: probe holds the *)
(* arguments and, once the call is done, what it returned.                 *)
(***************************************************************************)
VARIABLE probe

functionVars == <<probe>>

(***************************************************************************)
(* useRateLimit in a mounted component: the limiter the last render made,  *)
(* Date.now(), what the last checkRateLimit returned, and the time of      *)
(* every call that was let through since the component was mounted.        *)
(***************************************************************************)
VARIABLES rateLimiter, clock, lastCheck, passed

rateVars == <<rateLimiter, clock, lastCheck, passed>>

vars == <<searchVars, uploadVars, functionVars, rateVars>>

MaxFiles == 2

MaxUploadSize == 10485760

AllowedTypes == {"image/jpeg", "image/png", "image/webp", "image/gif"}

FileChoices ==
    { [name |-> "a.jpg", size |-> 3, type |-> "image/jpeg"],
      [name |-> "b.png", size |-> MaxUploadSize, type |-> "image/png"],
      [name |-> "c.mp4", size |-> 3, type |-> "video/mp4"],
      [name |-> "d.jpg", size |-> MaxUploadSize + 1, type |-> "image/jpeg"] }

Batches == UNION { [1..n -> FileChoices] : n \in 1..MaxFiles }

(* SecurityValidator.validateFileUpload *)
ValidateFileUpload(file) ==
    IF file.size > MaxUploadSize THEN [isValid |-> FALSE, error |-> "size"]
    ELSE IF file.type \notin AllowedTypes THEN [isValid |-> FALSE, error |-> "type"]
    ELSE [isValid |-> TRUE, error |-> ""]

(* the validation loop of handleSubmit: it returns at the first invalid file *)
AllValid(files) == \A i \in 1..Len(files) : ValidateFileUpload(files[i]).isValid

NoBatch == [files |-> <<>>]

Unset == [unset |-> TRUE]

Round(a, b) == (2 * a + b) \div (2 * b)

InitUpload ==
    /\ selectedFiles = <<>>
    /\ submit = "idle"
    /\ submitted = <<>>
    /\ toast = "none"
    /\ isUploading = FALSE
    /\ uploadProgress = <<>>
    /\ uploadResults = <<>>
    /\ overallProgress = 0
    /\ batch = NoBatch
    /\ errorCalls = <<>>
    /\ completeCalls = <<>>
    /\ uploadEvent = [op |-> "mount"]

(* FileUploadDropzone calls onFilesSelected = setSelectedFiles *)
SelectFiles(files) ==
    /\ submit \notin {"uploading", "saving"}
    /\ selectedFiles = <<>>
    /\ selectedFiles' = files
    /\ uploadEvent' = [op |-> "select"]
    /\ UNCHANGED <<submit, submitted, toast, isUploading, uploadProgress,
                   uploadResults, overallProgress, batch, errorCalls, completeCalls>>

(* uploadFiles(files): everything before the first await *)
StartUpload(files) ==
    /\ isUploading' = TRUE
    /\ uploadProgress' = <<>>
    /\ uploadResults' = <<>>
    /\ overallProgress' = 0
    /\ batch' = [ files |-> files,
                  results |-> [i \in 1..Len(files) |-> Unset],
                  progressMap |-> <<>>,
                  task |-> [i \in 1..Len(files) |-> "running"],
                  order |-> <<>> ]
    /\ errorCalls' = <<>>
    /\ completeCalls' = <<>>

(***************************************************************************)
(* handleSubmit up to its first suspension.  precondition is what the      *)
(* checks before the validation loop find: "empty" (no text or no file),   *)
(* "signedOut", "limited" (checkRateLimit refuses) or "ok".                *)
(***************************************************************************)
Preconditions == {"empty", "signedOut", "limited", "ok"}

HandleSubmit(precondition) ==
    /\ submit \notin {"uploading", "saving"}
    /\ batch = NoBatch
    /\ uploadEvent' = [op |-> "submit"]
    /\ precondition = "empty" <=> selectedFiles = <<>>
    /\ submitted' = selectedFiles
    /\ IF precondition # "ok"
          THEN /\ submit' = "returned"
               /\ toast' = precondition
               /\ UNCHANGED <<isUploading, uploadProgress, uploadResults,
                              overallProgress, batch, errorCalls, completeCalls>>
          ELSE IF ~AllValid(selectedFiles)
          THEN /\ submit' = "returned"
               /\ toast' = "validation"
               /\ UNCHANGED <<isUploading, uploadProgress, uploadResults,
                              overallProgress, batch, errorCalls, completeCalls>>
          ELSE /\ submit' = "uploading"
               /\ toast' = "uploading"
               /\ StartUpload(selectedFiles)
    /\ UNCHANGED selectedFiles

(***************************************************************************)
(* The upload tasks of the call in flight.  Indices are 1-based here.      *)
(***************************************************************************)
RECURSIVE SumProgress(_)
SumProgress(infos) ==
    IF infos = <<>> THEN 0 ELSE infos[1].progress + SumProgress(Tail(infos))

(* updateOverallProgress: Math.round(totalProgress / files.length) *)
OverallOf(progressMap, fileCount) == Round(SumProgress(progressMap), fileCount)

(* Map.set: a key that is there keeps its place, a new key goes last *)
MapSet(progressMap, info) ==
    IF \E k \in 1..Len(progressMap) : progressMap[k].fileIndex = info.fileIndex
       THEN [k \in 1..Len(progressMap) |->
                IF progressMap[k].fileIndex = info.fileIndex THEN info
                ELSE progressMap[k]]
       ELSE Append(progressMap, info)

Transferred(index) ==
    IF \E k \in 1..Len(batch.progressMap) : batch.progressMap[k].fileIndex = index
       THEN LET k == CHOOSE k \in 1..Len(batch.progressMap) :
                        batch.progressMap[k].fileIndex = index
            IN  batch.progressMap[k].bytesTransferred
       ELSE 0

(* the state_changed observer of task index *)
Progress(index, bytes) ==
    /\ batch # NoBatch
    /\ index \in 1..Len(batch.files)
    /\ batch.task[index] = "running"
    /\ bytes > Transferred(index)
    /\ LET file == batch.files[index]
           progressInfo == [ fileIndex |-> index, fileName |-> file.name,
                             progress |-> Round(bytes * 100, file.size),
                             bytesTransferred |-> bytes, totalBytes |-> file.size,
                             state |-> "running" ]
           map == MapSet(batch.progressMap, progressInfo)
       IN  /\ batch' = [batch EXCEPT !.progressMap = map]
           /\ uploadProgress' = map
           /\ overallProgress' = OverallOf(map, Len(batch.files))
    /\ uploadEvent' = [op |-> "progress"]
    /\ UNCHANGED <<selectedFiles, submit, submitted, toast, isUploading,
                   uploadResults, errorCalls, completeCalls>>

SettleAppended(index, result) ==
    batch' = [batch EXCEPT !.results[Len(batch.order) + 1] = result,
                           !.task[index] = "settled",
                           !.order = Append(@, index)]

SettleAndAbort(index, result) ==
    batch' = [batch EXCEPT
                 !.results = [j \in 1..Len(batch.files) |->
                                 IF j = index \/ batch.results[j] = Unset
                                    THEN result ELSE batch.results[j]],
                 !.task = [j \in 1..Len(batch.files) |-> "settled"],
                 !.order = Append(@, index)]

(* results[index] = result; resolve(result).  order is history: the order *)
(* in which the promises of the files were resolved                       *)
Settle(index, result) ==
    batch' = [batch EXCEPT !.results[index] = result, !.task[index] = "settled",
                           !.order = Append(@, index)]

(* the error observer of task index *)
TaskError(index) ==
    /\ batch # NoBatch
    /\ index \in 1..Len(batch.files)
    /\ batch.task[index] = "running"
    /\ Settle(index, [success |-> FALSE, error |-> "storage",
                      fileName |-> batch.files[index].name])
    /\ uploadEvent' = [op |-> "error"]
    /\ UNCHANGED <<selectedFiles, submit, submitted, toast, isUploading,
                   uploadProgress, uploadResults, overallProgress, errorCalls,
                   completeCalls>>

(* the completion observer of task index, up to the await of getDownloadURL *)
TaskComplete(index) ==
    /\ batch # NoBatch
    /\ index \in 1..Len(batch.files)
    /\ batch.task[index] = "running"
    /\ Transferred(index) = batch.files[index].size
    /\ batch' = [batch EXCEPT !.task[index] = "finalizing"]
    /\ uploadEvent' = [op |-> "complete"]
    /\ UNCHANGED <<selectedFiles, submit, submitted, toast, isUploading,
                   uploadProgress, uploadResults, overallProgress, errorCalls,
                   completeCalls>>

(* getDownloadURL resolves (ok) or rejects *)
DownloadURL(index, ok) ==
    /\ batch # NoBatch
    /\ index \in 1..Len(batch.files)
    /\ batch.task[index] = "finalizing"
    /\ Settle(index,
              IF ok THEN [success |-> TRUE, url |-> index,
                          fileName |-> batch.files[index].name]
              ELSE [success |-> FALSE, error |-> "url",
                    fileName |-> batch.files[index].name])
    /\ uploadEvent' = [op |-> "url"]
    /\ UNCHANGED <<selectedFiles, submit, submitted, toast, isUploading,
                   uploadProgress, uploadResults, overallProgress, errorCalls,
                   completeCalls>>

AllOutcomes(outcomes) == outcomes

Failures(outcomes) == SelectSeq(outcomes, LAMBDA r : ~r.success)

FileNames(outcomes) == [i \in 1..Len(outcomes) |-> outcomes[i].fileName]

(***************************************************************************)
(* Promise.all resolves: the rest of uploadFiles, then, when handleSubmit   *)
(* awaits the call, handleSubmit up to the await of addDoc, or through its *)
(* catch when no upload succeeded.                                         *)
(***************************************************************************)
FinishUpload ==
    /\ batch # NoBatch
    /\ \A i \in 1..Len(batch.files) : batch.task[i] = "settled"
    /\ uploadResults' = batch.results
    /\ overallProgress' = 100
    /\ errorCalls' = IF Failures(batch.results) # <<>>
                        THEN Append(errorCalls,
                                    [count |-> Len(Failures(batch.results)),
                                     names |-> FileNames(Failures(batch.results))])
                        ELSE errorCalls
    /\ completeCalls' = Append(completeCalls, batch.results)
    /\ isUploading' = FALSE
    /\ batch' = NoBatch
    /\ uploadEvent' = [op |-> "finish", order |-> batch.order,
                        returned |-> batch.results]
    /\ IF submit # "uploading"
          THEN UNCHANGED <<submit, toast>>
          ELSE IF Len(Failures(batch.results)) = Len(batch.results)
          THEN submit' = "failed" /\ toast' = "allFailed"
          ELSE submit' = "saving" /\ UNCHANGED toast
    /\ UNCHANGED <<selectedFiles, submitted, uploadProgress>>

(* addDoc resolves (ok: the form is reset) or rejects *)
SaveMemory(ok) ==
    /\ submit = "saving"
    /\ IF ok
          THEN submit' = "saved" /\ toast' = "success" /\ selectedFiles' = <<>>
          ELSE submit' = "failed" /\ toast' = "saveFailed" /\ UNCHANGED selectedFiles
    /\ uploadEvent' = [op |-> "save"]
    /\ UNCHANGED <<submitted, isUploading, uploadProgress, uploadResults,
                   overallProgress, batch, errorCalls, completeCalls>>

ResultsCleared(outcomes) == <<>>

(* cancelUploads makes no call of setUploadResults and holds no task *)
ResultsAfterCancel(outcomes) == outcomes

CancelUploads ==
    /\ isUploading' = FALSE
    /\ uploadProgress' = <<>>
    /\ overallProgress' = 0
    /\ uploadResults' = ResultsAfterCancel(uploadResults)
    /\ uploadEvent' = [op |-> "cancel", running |-> batch # NoBatch]
    /\ UNCHANGED <<selectedFiles, submit, submitted, toast, batch, errorCalls,
                   completeCalls>>

(* the files retryFailedUploads passes to uploadFiles *)
FailedFiles(originalFiles, outcomes) ==
    SelectSeq(originalFiles,
              LAMBDA f : \E k \in 1..Len(Failures(outcomes)) :
                            Failures(outcomes)[k].fileName = f.name)

(* retryFailedUploads(originalFiles), up to the first await of uploadFiles *)
RetryFailedUploads(originalFiles) ==
    /\ batch = NoBatch
    /\ LET failedFiles == FailedFiles(originalFiles, uploadResults)
       IN  /\ uploadEvent' = [op |-> "retry", originalFiles |-> originalFiles,
                                 outcomes |-> uploadResults]
           /\ IF failedFiles # <<>>
                 THEN StartUpload(failedFiles)
                 ELSE UNCHANGED <<isUploading, uploadProgress, uploadResults,
                                  overallProgress, batch, errorCalls,
                                  completeCalls>>
    /\ UNCHANGED <<selectedFiles, submit, submitted, toast>>

ProgressSteps(file) == {file.size \div 3, file.size}

NextUpload ==
    \/ \E files \in Batches : SelectFiles(files)
    \/ \E precondition \in Preconditions : HandleSubmit(precondition)
    \/ \E index \in 1..MaxFiles :
          \E bytes \in UNION {ProgressSteps(f) : f \in FileChoices} :
             Progress(index, bytes)
    \/ \E index \in 1..MaxFiles : TaskError(index)
    \/ \E index \in 1..MaxFiles : TaskComplete(index)
    \/ \E index \in 1..MaxFiles, ok \in BOOLEAN : DownloadURL(index, ok)
    \/ FinishUpload
    \/ \E ok \in BOOLEAN : SaveMemory(ok)
    \/ CancelUploads
    \/ RetryFailedUploads(submitted)

(***************************************************************************)
(* The session driven by search, loadMore and clearRecentSearches.         *)
(***************************************************************************)
Next ==
    \/ \E filters \in FilterChoices : Search(filters)
    \/ \E filters \in LoadMoreChoices : LoadMore(filters)
    \/ \E i \in 1..MaxInflight : Succeed(i)
    \/ \E i \in 1..MaxInflight : Fail(i)
    \/ ClearRecentSearches

(***************************************************************************)
(* The session driven by debouncedSearch, as QuickSearch drives it.        *)
(***************************************************************************)
NextDebounce ==
    \/ \E filters \in DebounceChoices : DebouncedSearch(filters)
    \/ FireTimer
    \/ \E i \in 1..MaxTimers : FireOrphan(i)
    \/ \E i \in 1..MaxInflight : Succeed(i)
    \/ \E i \in 1..MaxInflight : Fail(i)

(***************************************************************************)
(* buildQuery and calculateScore called on their own, over the filters and *)
(* the queries below.  The store answers the query buildQuery returns.     *)
(***************************************************************************)
NoProbe == [fn |-> "none", done |-> FALSE]

QueryFilters ==
    { [ searchQuery |-> q, tags |-> t, author |-> a, dateRange |-> r,
        isPublic |-> p, hasImages |-> h, sortBy |-> "", sortOrder |-> "",
        limit |-> l ] :
        q \in {<<>>, QA, QBlank}, t \in {{}, {T1}, {T1, T2}}, a \in {"", "u1"},
        r \in {NoRange, <<100, 190>>}, p \in {"undefined", "true", "false"},
        h \in BOOLEAN, l \in {0, 2} }

ScoreQueries ==
    { <<>>, QBlank, QA, <<"A">>, QB, <<"a", "b">>, <<"t">>, <<".">>,
      <<" ", "a">> }

HighlightTexts ==
    { <<>>, <<"A", "b">>, <<"b", ".">>, <<"a", "B", "a">>, <<"x", "+", "y">>,
      <<"a", "(", "b", ")">>, <<"a", " ", "b">> }

HighlightQueries ==
    ScoreQueries \cup { <<"B">>, <<"+">>, <<"(", "b">>, <<"b", ".">>, <<"B", "A">>,
                        <<"x", ".", "y">>, <<"a", " ">> }

ImagePrefix == <<"i", "m", "a", "g", "e", "/">>

ImagePng == ImagePrefix \o <<"p", "n", "g">>

ImageWebp == ImagePrefix \o <<"w", "e", "b", "p">>

TextPlain == <<"t", "e", "x", "t", "/", "p", "l", "a", "i", "n">>

\* imageProcessing.ts: a File is its type and its size in bytes.  What the
\* browser does with an image is its Encoding: the canvas has no 2d context,
\* the image does not load, toBlob gives null, or toBlob gives a blob of
\* some size.
CompressFiles ==
    { [type |-> t, size |-> s] : t \in {ImagePng, TextPlain}, s \in {2, 4} }

Encodings ==
    { [blob |-> FALSE, size |-> 0, error |-> e] :
         e \in {"Canvas context not available", "Failed to load image",
                "Failed to compress image"} }
    \cup { [blob |-> TRUE, size |-> s, error |-> ""] : s \in {1, 3, 5} }

IsImage(file) == StartsWith(file.type, ImagePrefix)

Original(file) ==
    [ file |-> file, originalSize |-> file.size, compressedSize |-> file.size,
      compressionRatio |-> 0 ]

CompressImage(file, encoding) ==
    IF encoding.blob
    THEN [ rejected |-> FALSE,
           value |-> [ file |-> [type |-> ImageWebp, size |-> encoding.size],
                       originalSize |-> file.size,
                       compressedSize |-> encoding.size,
                       compressionRatio |->
                           Round(100 * (file.size - encoding.size), file.size) ] ]
    ELSE [ rejected |-> TRUE, value |-> encoding.error ]

RECURSIVE CompressImages(_, _)
CompressImages(files, encodings) ==
    IF files = <<>> THEN <<>>
    ELSE LET file == Head(files)
             processed == CompressImage(file, Head(encodings))
             result == IF IsImage(file) /\ ~processed.rejected
                       THEN processed.value
                       ELSE Original(file)
         IN  <<result>> \o CompressImages(Tail(files), Tail(encodings))

CompressInputs ==
    UNION { { <<f, e>> : f \in [1..n -> CompressFiles], e \in [1..n -> Encodings] } :
            n \in 0..MaxFiles }

ProbeInputs ==
    { [fn |-> "compressImages", done |-> FALSE, files |-> c[1], encodings |-> c[2]] :
         c \in CompressInputs }
    \cup
    { [fn |-> "buildQuery", done |-> FALSE, filters |-> f, isLoadMore |-> c[1],
       lastDoc |-> c[2]] :
         f \in QueryFilters, c \in {<<FALSE, NoDoc>>, <<TRUE, NoDoc>>, <<TRUE, 3>>} }
    \cup
    { [fn |-> "calculateScore", done |-> FALSE, item |-> d, searchQueryParam |-> q] :
         d \in DocIds, q \in ScoreQueries }
    \cup
    { [fn |-> "highlightText", done |-> FALSE, text |-> t, searchQuery |-> q] :
         t \in HighlightTexts, q \in HighlightQueries }

CallBuildQuery ==
    /\ probe.fn = "buildQuery"
    /\ ~probe.done
    /\ LET constraints == BuildQuery(probe.filters, probe.isLoadMore, probe.lastDoc)
       IN  probe' = [ fn |-> "buildQuery", done |-> TRUE,
                      filters |-> probe.filters, isLoadMore |-> probe.isLoadMore,
                      lastDoc |-> probe.lastDoc, constraints |-> constraints,
                      docs |-> GetDocs(constraints) ]

CallCalculateScore ==
    /\ probe.fn = "calculateScore"
    /\ ~probe.done
    /\ probe' = [ fn |-> "calculateScore", done |-> TRUE, item |-> probe.item,
                  searchQueryParam |-> probe.searchQueryParam,
                  score |-> CalculateScore(Collection[probe.item],
                                           probe.searchQueryParam) ]

CallHighlightText ==
    /\ probe.fn = "highlightText"
    /\ ~probe.done
    /\ probe' = [ fn |-> "highlightText", done |-> TRUE, text |-> probe.text,
                  searchQuery |-> probe.searchQuery,
                  highlighted |-> HighlightText(probe.text, probe.searchQuery) ]

CallCompressImages ==
    /\ probe.fn = "compressImages"
    /\ ~probe.done
    /\ probe' = [ fn |-> "compressImages", done |-> TRUE, files |-> probe.files,
                  encodings |-> probe.encodings,
                  processed |-> CompressImages(probe.files, probe.encodings) ]

NextFunctions ==
    \/ CallCompressImages
    \/ CallBuildQuery
    \/ CallCalculateScore
    \/ CallHighlightText

UploadLimit == 5

ChatLimit == 10

WindowMs == 60000

TickMs == 30000

MaxClock == 60000

MaxPasses == 11

Identifiers == {"uid1", "uid2"}

\* createRateLimiter: requests holds the times of the calls let through; an
\* identifier the Map does not hold has the empty list.
CreateRateLimiter(limit, windowMs) ==
    [ limit |-> limit, windowMs |-> windowMs,
      requests |-> [identifier \in Identifiers |-> <<>>] ]

ValidRequests(limiter, identifier, now) ==
    LET windowStart == now - limiter.windowMs
        InWindow(timestamp) == timestamp > windowStart
    IN  SelectSeq(limiter.requests[identifier], InWindow)

IsAllowed(limiter, identifier, now) ==
    Len(ValidRequests(limiter, identifier, now)) < limiter.limit

NoCheck == [identifier |-> "", isAllowed |-> FALSE]

\* MemoryUpload is mounted (5 uploads per minute), or useChat is (10
\* messages per minute)
Mounted(limits) ==
    /\ rateLimiter \in { CreateRateLimiter(limit, WindowMs) : limit \in limits }
    /\ clock = 0
    /\ lastCheck = NoCheck
    /\ passed = [identifier \in Identifiers |-> <<>>]

RECURSIVE SumLen(_, _)
SumLen(lists, keys) ==
    IF keys = {} THEN 0
    ELSE LET key == CHOOSE k \in keys : TRUE
         IN  Len(lists[key]) + SumLen(lists, keys \ {key})

PassedCount == SumLen(passed, Identifiers)

\* checkRateLimit(identifier), as handleSubmit and sendMessage call it
CheckRateLimit(identifier) ==
    /\ PassedCount < MaxPasses
    /\ LET now == clock
           isAllowed == IsAllowed(rateLimiter, identifier, now)
       IN  /\ lastCheck' = [identifier |-> identifier, isAllowed |-> isAllowed]
           /\ rateLimiter' =
                 IF isAllowed
                 THEN [rateLimiter EXCEPT !.requests[identifier] =
                          Append(ValidRequests(rateLimiter, identifier, now), now)]
                 ELSE rateLimiter
           /\ passed' = IF isAllowed
                        THEN [passed EXCEPT ![identifier] = Append(@, now)]
                        ELSE passed
    /\ UNCHANGED clock

\* the component renders again: the body of useRateLimit runs again
Rerender ==
    /\ rateLimiter' = CreateRateLimiter(rateLimiter.limit, rateLimiter.windowMs)
    /\ UNCHANGED <<clock, lastCheck, passed>>

Tick ==
    /\ clock < MaxClock
    /\ clock' = clock + TickMs
    /\ UNCHANGED <<rateLimiter, lastCheck, passed>>

NextRateLimit ==
    \/ \E identifier \in Identifiers : CheckRateLimit(identifier)
    \/ Rerender
    \/ Tick

InitRateLimit == Mounted({UploadLimit})

Init == InitSearch /\ InitUpload /\ probe = NoProbe /\ InitRateLimit

InitFunctions == InitSearch /\ InitUpload /\ probe \in ProbeInputs /\ InitRateLimit

InitComponents ==
    InitSearch /\ InitUpload /\ probe = NoProbe /\ Mounted({UploadLimit, ChatLimit})

Spec == Init /\ [][Next /\ UNCHANGED <<uploadVars, functionVars, rateVars>>]_vars

SpecDebounce ==
    Init /\ [][NextDebounce /\ UNCHANGED <<uploadVars, functionVars, rateVars>>]_vars

SpecUpload ==
    Init /\ [][NextUpload /\ UNCHANGED <<searchVars, functionVars, rateVars>>]_vars

SpecFunctions ==
    InitFunctions
    /\ [][NextFunctions /\ UNCHANGED <<searchVars, uploadVars, rateVars>>]_vars

SpecRateLimit ==
    InitComponents
    /\ [][NextRateLimit /\ UNCHANGED <<searchVars, uploadVars, functionVars>>]_vars

(***************************************************************************)
(* The claims.                                                             *)
(***************************************************************************)
FirstPageInFlight == \E i \in 1..Len(inflight) : ~inflight[i].isLoadMore

(* the page the store returned to the call that lastEvent records *)
PageOf(event) == GetDocs(BuildQuery(event.filters, event.isLoadMore, event.lastDoc))

Ids(rs) == [i \in 1..Len(rs) |-> rs[i].id]

Position(docs, d) == CHOOSE i \in 1..Len(docs) : docs[i] = d

NoDuplicates(list) ==
    \A i, j \in 1..Len(list) : list[i] = list[j] => i = j

\* C1: when search(A) and then search(B) are called while A is in flight,
\* the results after both responses are B's documents in either order of
\* arrival: the response of an outdated search (a newer search has already
\* succeeded, and no newer one is in flight) leaves the results as they are.
C1_StaleResponseDiscarded ==
    [][ ( /\ lastEvent'.op = "ok"
          /\ lastEvent'.age = "outdated"
          /\ \A j \in 1..Len(inflight') : inflight'[j].age # "newest" )
        => results' = results ]_vars

\* C2: a timeout scheduled by debouncedSearch(f1) before a later call
\* debouncedSearch(f2) never runs search(f1).
C2_SupersededNeverSearched ==
    \A i \in 1..Len(inflight) : ~inflight[i].stale

\* C3: recentSearches holds no query twice and at most 10 entries, and after
\* a successful first-page search of a query that is not blank its first
\* entry is that query.
C3_RecentSearches ==
    /\ NoDuplicates(recentSearches)
    /\ Len(recentSearches) <= 10
    /\ ( /\ lastEvent.op = "ok"
         /\ ~lastEvent.isLoadMore
         /\ Trim(lastEvent.filters.searchQuery) # <<>> )
       => /\ recentSearches # <<>>
          /\ recentSearches[1] = lastEvent.filters.searchQuery

\* C3 witness: search b, then a, over a stored history of 10 entries that
\* ends in a: a is promoted to the head, once, and the list stays at 10.
C3_Witness ==
    /\ lastEvent.op = "ok"
    /\ ~lastEvent.isLoadMore
    /\ lastEvent.filters.searchQuery = QA
    /\ Len(recentSearches) = 10
    /\ recentSearches[1] = QA
    /\ recentSearches[2] = QB

\* C4: loadMore(filters) called with lastDoc null leaves what search(filters)
\* leaves: the results are the first page alone and a query that is not
\* blank is at the head of recentSearches.
C4_LoadMoreWithoutCursorIsSearch ==
    ( /\ lastEvent.op = "ok"
      /\ lastEvent.isLoadMore
      /\ lastEvent.lastDoc = NoDoc )
    => /\ results = NewResults(GetDocs(BuildQuery(lastEvent.filters, FALSE, NoDoc)),
                               lastEvent.filters)
       /\ Trim(lastEvent.filters.searchQuery) # <<>>
          => /\ recentSearches # <<>>
             /\ recentSearches[1] = lastEvent.filters.searchQuery

\* C5: a failed store query resolves the promise of search; a failed
\* first-page search leaves results empty; a loadMore call and its failure
\* each leave results, lastDoc and hasMore as they were.
C5_FailureDegrades ==
    [][ /\ lastEvent'.op = "fail"
           => /\ lastEvent'.promise = "resolved"
              /\ IF lastEvent'.isLoadMore
                    THEN /\ results' = results
                         /\ lastDoc' = lastDoc
                         /\ hasMore' = hasMore
                    ELSE results' = <<>>
        /\ lastEvent'.op = "loadMore"
           => /\ results' = results
              /\ lastDoc' = lastDoc
              /\ hasMore' = hasMore ]_vars

\* C5 witness: a loadMore has failed over a page of results with a cursor.
C5_Witness ==
    /\ lastEvent.op = "fail"
    /\ lastEvent.isLoadMore
    /\ results # <<>>
    /\ lastDoc # NoDoc
    /\ hasMore

\* C6: after a successful search or loadMore, lastDoc is the last document
\* of the page the store returned (null for an empty page) and hasMore is
\* true exactly when the page holds filters.limit (default 20) documents.
C6_CursorAndHasMore ==
    lastEvent.op = "ok"
    => LET docs == PageOf(lastEvent)
           pageSize == IF lastEvent.filters.limit # 0
                          THEN lastEvent.filters.limit ELSE 20
       IN  /\ lastDoc = (IF docs = <<>> THEN NoDoc ELSE docs[Len(docs)])
           /\ hasMore <=> Len(docs) = pageSize

\* C6 witness: a loadMore returned a full page, which is not the last.
C6_Witness ==
    /\ lastEvent.op = "ok"
    /\ lastEvent.isLoadMore
    /\ lastEvent.lastDoc # NoDoc
    /\ hasMore
    /\ lastDoc = 5

\* C7: a first-page search carries no start-after constraint, the results
\* are empty while it is in flight, and on success the results are the
\* documents of the new page alone.
C7_FreshSearchDiscards ==
    /\ \A i \in 1..Len(inflight) :
          ~inflight[i].isLoadMore
          => OfKind(QueryOf(inflight[i]), "startAfter") = <<>>
    /\ FirstPageInFlight => results = <<>>
    /\ (lastEvent.op = "ok" /\ ~lastEvent.isLoadMore)
       => /\ Len(results) = Len(PageOf(lastEvent))
          /\ {results[i].id : i \in 1..Len(results)}
             = {PageOf(lastEvent)[i] : i \in 1..Len(PageOf(lastEvent))}

\* C8 as claimed: a successful loadMore keeps the results as a prefix and
\* appends the documents of the new page in the order the store returned
\* them.
C8_AppendInStoreOrder ==
    [][ (lastEvent'.op = "ok" /\ lastEvent'.isLoadMore)
        => /\ Len(results') >= Len(results)
           /\ SubSeq(results', 1, Len(results)) = results
           /\ Ids(SubSeq(results', Len(results) + 1, Len(results')))
              = PageOf(lastEvent') ]_vars

\* C8 as amended: a successful loadMore keeps the results as a prefix and
\* appends the documents of the new page: in the order the store returned
\* them when the filters carry no free-text query, in descending order of
\* score (equal scores in the store's order) when they do.
C8_AppendRanked ==
    [][ (lastEvent'.op = "ok" /\ lastEvent'.isLoadMore)
        => LET docs == PageOf(lastEvent')
               added == SubSeq(results', Len(results) + 1, Len(results'))
           IN  /\ Len(results') = Len(results) + Len(docs)
               /\ SubSeq(results', 1, Len(results)) = results
               /\ {added[i].id : i \in 1..Len(added)}
                  = {docs[i] : i \in 1..Len(docs)}
               /\ IF lastEvent'.filters.searchQuery = <<>>
                     THEN Ids(added) = docs
                     ELSE \A i, j \in 1..Len(added) :
                             i < j
                             => \/ added[i].score > added[j].score
                                \/ /\ added[i].score = added[j].score
                                   /\ Position(docs, added[i].id)
                                      < Position(docs, added[j].id) ]_vars

\* C8 witness: loadMore of the query a appended the page <<4, 5>> of the
\* store as <<5, 4>>, after the first page.
C8_Witness ==
    /\ lastEvent.op = "ok"
    /\ lastEvent.isLoadMore
    /\ lastEvent.filters.searchQuery = QA
    /\ Ids(results) = <<2, 3, 5, 4>>

\* C9: clearRecentSearches leaves recentSearches empty and no entry under
\* 'jdx_recent_searches' in local storage.
C9_ClearEmptiesBoth ==
    lastEvent.op = "clear"
    => /\ recentSearches = <<>>
       /\ localStorage = Absent

\* C9 witness: a history that had entries has been cleared.
C9_Witness ==
    /\ lastEvent.op = "clear"
    /\ lastEvent.hadEntries

InvalidIndexes(files) ==
    { i \in 1..Len(files) : ~ValidateFileUpload(files[i]).isValid }

\* C10: a submitted batch of N files of which exactly one fails validation
\* yields N upload results in the order of the files, the result of the
\* invalid file a failure.
C10_InvalidFileIsolated ==
    ( /\ submit \in {"returned", "failed", "saving", "saved"}
      /\ toast \notin {"empty", "signedOut", "limited"}
      /\ Len(submitted) >= 2
      /\ Cardinality(InvalidIndexes(submitted)) = 1 )
    => /\ Len(uploadResults) = Len(submitted)
       /\ \A i \in 1..Len(submitted) :
             /\ uploadResults[i].fileName = submitted[i].name
             /\ i \in InvalidIndexes(submitted) => ~uploadResults[i].success

(***************************************************************************)
(* The upload pipeline.                                                    *)
(***************************************************************************)
FailedIndexes(outcomes) == { i \in 1..Len(outcomes) : ~outcomes[i].success }

\* C11: whatever the order in which the uploads of a batch complete, the
\* array uploadFiles returns has one entry per input file and entry i
\* carries the name of input file i.
C11_ResultsAligned ==
    [][ uploadEvent'.op = "finish"
        => /\ uploadEvent'.returned = uploadResults'
           /\ Len(uploadResults') = Len(batch.files)
           /\ \A i \in 1..Len(batch.files) :
                 uploadResults'[i].fileName = batch.files[i].name ]_vars

\* C11 witness: the second file of a batch settled before the first.
C11_Witness ==
    /\ uploadEvent.op = "finish"
    /\ uploadEvent.order = <<2, 1>>
    /\ Len(uploadResults) = 2
    /\ uploadResults[1].fileName = "a.jpg"
    /\ uploadResults[2].fileName = "b.png"

\* C12: a storage error on the upload of a file, or on fetching its download
\* URL, settles that file with a failure result and changes the task and the
\* result of no other file; uploadFiles then returns an array that holds a
\* result for every file.
C12_FailureIsolated ==
    [][ /\ uploadEvent'.op \in {"error", "url"}
           => /\ batch' # NoBatch
              /\ \E i \in 1..Len(batch.files) :
                    /\ batch.task[i] # "settled"
                    /\ batch'.task[i] = "settled"
                    /\ batch'.results[i] # Unset
                    /\ batch'.results[i].fileName = batch.files[i].name
                    /\ ~batch'.results[i].success
                       => batch'.results[i].error \in {"storage", "url"}
                    /\ uploadEvent'.op = "error" => ~batch'.results[i].success
                    /\ \A j \in 1..Len(batch.files) \ {i} :
                          /\ batch'.task[j] = batch.task[j]
                          /\ batch'.results[j] = batch.results[j]
        /\ uploadEvent'.op = "finish"
           => /\ uploadEvent'.returned = batch.results
              /\ Len(batch.results) = Len(batch.files)
              /\ \A i \in 1..Len(batch.files) : batch.results[i] # Unset ]_vars

\* C12 witness: the first file failed in storage, then the second one was
\* uploaded, and uploadFiles returned both results.
C12_Witness ==
    /\ uploadEvent.op = "finish"
    /\ uploadEvent.order = <<1, 2>>
    /\ ~uploadEvent.returned[1].success
    /\ uploadEvent.returned[1].error = "storage"
    /\ uploadEvent.returned[2].success

\* C13: when a batch finishes with a failed file, onError is called exactly
\* once, with the names of all the failed files, onComplete is called with
\* all N results and the results of the other files stay successes; when no
\* file failed, onError is not called.
C13_FailuresAggregated ==
    [][ uploadEvent'.op = "finish"
        => LET failed == FailedIndexes(batch.results)
           IN  /\ completeCalls' = <<batch.results>>
               /\ Len(batch.results) = Len(batch.files)
               /\ uploadResults' = batch.results
               /\ IF failed # {}
                     THEN /\ Len(errorCalls') = 1
                          /\ errorCalls'[1].count = Cardinality(failed)
                          /\ Len(errorCalls'[1].names) = Cardinality(failed)
                          /\ { errorCalls'[1].names[k] :
                                  k \in 1..Len(errorCalls'[1].names) }
                             = { batch.files[i].name : i \in failed }
                     ELSE errorCalls' = <<>> ]_vars

\* C13 witness: of two files the second failed; onError named it alone.
C13_Witness ==
    /\ uploadEvent.op = "finish"
    /\ Len(errorCalls) = 1
    /\ errorCalls[1].names = <<"b.png">>
    /\ Len(completeCalls) = 1
    /\ Len(completeCalls[1]) = 2
    /\ uploadResults[1].success

\* C14: at every moment of a batch of N files, overallProgress is the
\* rounded mean over the N files of the percentage each reported last (0 for
\* a file that has not reported): after each report, and when the batch has
\* finished.
C14_OverallIsMean ==
    /\ (batch # NoBatch /\ uploadProgress = batch.progressMap)
       => overallProgress
          = Round(SumProgress(batch.progressMap), Len(batch.files))
    /\ (uploadEvent.op = "finish" /\ uploadProgress # <<>>)
       => overallProgress
          = Round(SumProgress(uploadProgress), Len(uploadResults))

Nth(indexes, k) ==
    CHOOSE i \in indexes : Cardinality({ j \in indexes : j < i }) = k - 1

\* C15: retryFailedUploads(originalFiles), called with the files the last
\* results belong to, passes to uploadFiles exactly the files whose result
\* is a failure, and uploads nothing when there is none.
C15_RetryOnlyFailed ==
    [][ ( /\ uploadEvent'.op = "retry"
          /\ Len(uploadResults) = Len(uploadEvent'.originalFiles)
          /\ \A i \in 1..Len(uploadResults) :
                uploadResults[i].fileName = uploadEvent'.originalFiles[i].name )
        => LET failed == FailedIndexes(uploadResults)
               expected == [k \in 1..Cardinality(failed) |->
                               uploadEvent'.originalFiles[Nth(failed, k)]]
           IN  IF failed = {} THEN batch' = NoBatch
               ELSE batch' # NoBatch /\ batch'.files = expected ]_vars

\* C16: cancelUploads sets isUploading to false, uploadProgress to empty and
\* overallProgress to 0, and leaves uploadResults and every upload task in
\* flight as they are.
C16_CancelResetsDisplay ==
    [][ uploadEvent'.op = "cancel"
        => /\ isUploading' = FALSE
           /\ uploadProgress' = <<>>
           /\ overallProgress' = 0
           /\ uploadResults' = uploadResults
           /\ batch' = batch ]_vars

\* C16 witness: cancelled with a task running that had reported progress.
C16_Witness ==
    /\ uploadEvent.op = "cancel"
    /\ uploadEvent.running
    /\ batch.progressMap # <<>>
    /\ \E i \in 1..Len(batch.files) : batch.task[i] = "running"
    /\ uploadProgress = <<>>
    /\ overallProgress = 0

(***************************************************************************)
(* The query builder and the relevance score.                              *)
(***************************************************************************)
Wheres(constraints) ==
    { constraints[i] : i \in { k \in 1..Len(constraints) :
                                  constraints[k].kind = "where" } }

Returned(docs) == { docs[i] : i \in 1..Len(docs) }

\* C17: when filters.searchQuery is not empty, the query carries the
\* constraint isPublic == true and the store returns no private document,
\* whatever the isPublic field of the filters is.
C17_TextSearchIsPublic ==
    (probe.fn = "buildQuery" /\ probe.done /\ probe.filters.searchQuery # <<>>)
    => /\ \E c \in Wheres(probe.constraints) :
             c.field = "isPublic" /\ c.op = "==" /\ c.flag = TRUE
       /\ \A d \in Returned(probe.docs) : Collection[d].isPublic

\* C17 witness: a text query whose filters ask for private documents.
C17_Witness ==
    /\ probe.fn = "buildQuery"
    /\ probe.done
    /\ probe.filters.searchQuery = QA
    /\ probe.filters.isPublic = "false"
    /\ probe.filters.tags = {T1}
    /\ probe.filters.author = "u1"
    /\ ~Collection[1].isPublic

OnlyTags(filters) ==
    /\ filters.tags # {}
    /\ filters.searchQuery = <<>>
    /\ filters.author = ""
    /\ filters.dateRange = NoRange
    /\ filters.isPublic = "undefined"
    /\ ~filters.hasImages

\* C18: for filters with a tag set T that is not empty and no other filter,
\* the where constraints of the query are satisfied by the documents whose
\* tags meet T and by no other document.
C18_TagsAreDisjunctive ==
    (probe.fn = "buildQuery" /\ probe.done /\ OnlyTags(probe.filters))
    => /\ \A d \in DocIds :
             (\A c \in Wheres(probe.constraints) : Satisfies(d, c))
             <=> Collection[d].tags \cap probe.filters.tags # {}
       /\ (probe.filters.limit = 0 /\ ~probe.isLoadMore)
          => Returned(probe.docs)
             = { d \in DocIds : Collection[d].tags \cap probe.filters.tags # {} }

\* C18 witness: tags {t1, t2}: documents 1 and 3 carry t1, 2 and 4 carry t2,
\* document 5 carries no tag.
C18_Witness ==
    /\ probe.fn = "buildQuery"
    /\ probe.done
    /\ OnlyTags(probe.filters)
    /\ probe.filters.tags = {T1, T2}
    /\ probe.filters.limit = 0
    /\ ~probe.isLoadMore
    /\ Returned(probe.docs) = {1, 2, 3, 4}

\* C19: every document a search returns satisfies every active filter: it
\* carries one of the tags, is of the author, lies in the date range and
\* has the visibility asked for.
C19_FiltersConjoin ==
    (probe.fn = "buildQuery" /\ probe.done)
    => \A d \in Returned(probe.docs) :
          LET doc == Collection[d]
              filters == probe.filters
          IN  /\ filters.tags # {} => doc.tags \cap filters.tags # {}
              /\ filters.author # "" => doc.authorId = filters.author
              /\ filters.dateRange # NoRange
                 => /\ doc.createdAt >= filters.dateRange[1]
                    /\ doc.createdAt <= filters.dateRange[2]
              /\ filters.isPublic # "undefined"
                 => doc.isPublic = (filters.isPublic = "true")

\* C19 witness: tags {t1} and isPublic true: of the documents 1 (private)
\* and 3 (public) that carry t1, document 3 alone is returned.
C19_Witness ==
    /\ probe.fn = "buildQuery"
    /\ probe.done
    /\ probe.filters.tags = {T1}
    /\ probe.filters.isPublic = "true"
    /\ probe.filters.searchQuery = <<>>
    /\ probe.filters.author = ""
    /\ probe.filters.dateRange = NoRange
    /\ ~probe.filters.hasImages
    /\ probe.docs = <<3>>

Blank(q) == \A i \in 1..Len(q) : q[i] = " "

Contains(field, q) ==
    field # Undefined /\ Includes(ToLowerCase(field), ToLowerCase(q))

\* C20: calculateScore(D, Q) is 0 for a blank Q; otherwise it is the sum of
\* 10 for a title that contains Q and 5 more for one that starts with Q, 5
\* for the description, 3 for the content, 7 for a tag, 4 for the location
\* and 4 for a person that contains Q, without regard to case, plus a bonus
\* between 0 and 2; it is at least 10 when the title contains Q.  (Scores
\* are in units of 1/15.)
C20_ScoreIsSumOfMatches ==
    (probe.fn = "calculateScore" /\ probe.done)
    => LET item == Collection[probe.item]
           q == probe.searchQueryParam
           points ==
               (IF Contains(item.title, q) THEN 10 ELSE 0)
               + (IF item.title # Undefined
                     /\ StartsWith(ToLowerCase(item.title), ToLowerCase(q))
                     THEN 5 ELSE 0)
               + (IF Contains(item.description, q) THEN 5 ELSE 0)
               + (IF Contains(item.content, q) THEN 3 ELSE 0)
               + (IF \E tag \in item.tags : Contains(tag, q) THEN 7 ELSE 0)
               + (IF Contains(item.location, q) THEN 4 ELSE 0)
               + (IF \E person \in item.persons : Contains(person, q)
                     THEN 4 ELSE 0)
           bonus == probe.score - 15 * points
       IN  IF Blank(q) THEN probe.score = 0
           ELSE /\ bonus >= 0
                /\ bonus <= 2 * 15
                /\ Contains(item.title, q) => probe.score >= 10 * 15

\* C20 witness: document 4 and the query b: title (10 and 5), location (4)
\* and person (4) add up to 23; document 4 is too old for a bonus.
C20_Witness ==
    /\ probe.fn = "calculateScore"
    /\ probe.done
    /\ probe.item = 4
    /\ probe.searchQueryParam = QB
    /\ probe.score = 23 * 15

(***************************************************************************)
(* Ranking and highlighting.                                               *)
(***************************************************************************)
OnlyInContent(d, q) ==
    /\ Contains(ResultContent(Collection[d]), q)
    /\ ~Contains(Collection[d].title, q)
    /\ ~Contains(Collection[d].description, q)
    /\ ~Contains(Collection[d].location, q)
    /\ \A tag \in Collection[d].tags : ~Contains(tag, q)
    /\ \A person \in Collection[d].persons : ~Contains(person, q)

\* C21: after a successful first-page search with a free-text query the
\* results are in non-increasing order of score, and no document whose
\* title contains the query comes after one that matches it in its content
\* only.
C21_RankedByScore ==
    ( /\ lastEvent.op = "ok"
      /\ ~lastEvent.isLoadMore
      /\ lastEvent.filters.searchQuery # <<>> )
    => \A i, j \in 1..Len(results) :
          i < j
          => /\ results[i].score >= results[j].score
             /\ ~ ( /\ OnlyInContent(results[i].id, lastEvent.filters.searchQuery)
                    /\ Contains(Collection[results[j].id].title,
                                lastEvent.filters.searchQuery)
                    /\ ~Blank(lastEvent.filters.searchQuery) )

\* C21 witness: the query b: the store returns 2, 3, 4, 5 (newest first),
\* the scores put them in the order 4, 3, 2, 5.
C21_Witness ==
    /\ lastEvent.op = "ok"
    /\ ~lastEvent.isLoadMore
    /\ lastEvent.filters.searchQuery = QB
    /\ PageOf(lastEvent) = <<2, 3, 4, 5>>
    /\ Ids(results) = <<4, 3, 2, 5>>

Occurrences(text, q) ==
    { i \in 1..(Len(text) - Len(q) + 1) :
         ToLowerCase(SubSeq(text, i, i + Len(q) - 1)) = ToLowerCase(q) }

\* C22: for a query Q that is not blank and occurs exactly once in text,
\* without regard to case, highlightText(text, Q) is text with one mark span
\* around that occurrence; the span holds the characters of text as they
\* are cased in text, and the special characters of Q stand for themselves.
C22_HighlightWrapsOccurrence ==
    ( /\ probe.fn = "highlightText"
      /\ probe.done
      /\ ~Blank(probe.searchQuery)
      /\ Cardinality(Occurrences(probe.text, probe.searchQuery)) = 1 )
    => LET i == CHOOSE k \in Occurrences(probe.text, probe.searchQuery) : TRUE
           n == Len(probe.searchQuery)
       IN  probe.highlighted
           = SubSeq(probe.text, 1, i - 1)
             \o <<"<mark class=\"bg-yellow-200 px-1 rounded\">">>
             \o SubSeq(probe.text, i, i + n - 1)
             \o <<"</mark>">>
             \o SubSeq(probe.text, i + n, Len(probe.text))

\* C22 witness: the query b in the text aBa: the span holds B.
C22_Witness ==
    /\ probe.fn = "highlightText"
    /\ probe.done
    /\ probe.text = <<"a", "B", "a">>
    /\ probe.searchQuery = QB
    /\ probe.highlighted
       = <<"a", "<mark class=\"bg-yellow-200 px-1 rounded\">", "B", "</mark>", "a">>

\* C23: every ProcessedImage that compressImages returns has compressedSize
\* no larger than originalSize, the files whose compression failed included.
\* Violated: compressImage reports the size of the blob the canvas encoded,
\* which nothing compares with the size of the file.
C23_NeverLarger ==
    (probe.fn = "compressImages" /\ probe.done)
    => \A i \in 1..Len(probe.processed) :
          probe.processed[i].compressedSize <= probe.processed[i].originalSize

\* C24: the limiter behind useRateLimit(limit, windowMs) lets one identifier
\* pass at most limit times in any window of windowMs, however often the
\* component renders in between.  Violated: every render makes a new limiter
\* whose Map is empty.
C24_AtMostLimitPerWindow ==
    \A identifier \in Identifiers :
       \A i \in 1..Len(passed[identifier]) :
          Cardinality({ j \in 1..i :
                          passed[identifier][j]
                            > passed[identifier][i] - rateLimiter.windowMs })
            <= rateLimiter.limit

\* C25: after any sequence of search and loadMore calls no document id is
\* twice in results.  Violated: a loadMore whose cursor is null (after an
\* empty page) or is the cursor of another loadMore in flight appends
\* documents that results already holds.
C25_NoDocumentTwice == NoDuplicates(Ids(results))

\* C26: after clearRecentSearches, a query that was cleared is neither in
\* recentSearches nor in storage again unless it is searched again; here:
\* when a search succeeds right after the clear, the list and the stored
\* list hold nothing but the query of that search.  Violated: a search that
\* was started before the clear writes the list its closure captured.
C26_ClearedStaysCleared ==
    [][ (lastEvent.op = "clear" /\ lastEvent'.op = "ok")
        => /\ \A i \in 1..Len(recentSearches') :
                 recentSearches'[i] = lastEvent'.filters.searchQuery
           /\ localStorage' # Absent
              => \A i \in 1..Len(JSONParse(localStorage')) :
                    JSONParse(localStorage')[i] = lastEvent'.filters.searchQuery
      ]_vars

\* C27: isSearching is true whenever at least one first-page search is in
\* flight and false once none is.  Violated: the finally block of the first
\* of two overlapping searches to finish sets it to false.
C27_SearchingWhileInFlight == isSearching <=> FirstPageInFlight

\* C28: whenever a first-page search has ended, in success or in failure,
\* and results is empty, hasMore is false.  Violated: the catch block
\* empties results and leaves hasMore as it was.
C28_EmptyHasNoMore ==
    ( /\ lastEvent.op \in {"ok", "fail"}
      /\ ~lastEvent.isLoadMore
      /\ results = <<>> )
    => ~hasMore

\* C29: once cancelUploads has been called, and until uploadFiles is called
\* again, the progress and completion callbacks of the batch that was
\* running change none of uploadProgress, overallProgress, uploadResults;
\* here: for the callback that runs right after the cancel.  Violated:
\* cancelUploads only resets the display, and the tasks of the batch go on.
C29_CancelledBatchIsSilent ==
    [][ ( /\ uploadEvent.op = "cancel"
          /\ uploadEvent.running
          /\ uploadEvent'.op \in {"progress", "error", "complete", "url", "finish"} )
        => UNCHANGED <<uploadProgress, overallProgress, uploadResults>>
      ]_vars

\* C30: after every saveRecentSearch and every clearRecentSearches the list
\* that the JSON text under jdx_recent_searches holds is recentSearches, an
\* absent key standing for the empty list.
C30_StorageMirrorsList ==
    ( \/ lastEvent.op = "clear"
      \/ /\ lastEvent.op = "ok"
         /\ SavesRecent(lastEvent) )
    => LoadRecentSearches(localStorage) = recentSearches

\* C30 witness: a search for b has been saved in front of stored entries,
\* one of which holds a backslash.
C30_Witness ==
    /\ lastEvent.op = "ok"
    /\ SavesRecent(lastEvent)
    /\ localStorage # Absent
    /\ Len(recentSearches) > 1
    /\ recentSearches[1] = QB
    /\ \E i \in 1..Len(recentSearches) : recentSearches[i] = <<"5", "\\">>
    /\ JSONParse(localStorage) = recentSearches

====
